---- MODULE Spec2Model ----
(***************************************************************************)
(* Model of src/h1/tls.rs: the deadpool Manager for TLS connections        *)
(* (TlsConnection::create / recycle), the leased-connection adapter        *)
(* (TlsConnWrapper) and the build-time TLS backend shim (add_tls).         *)
(*                                                                         *)
(* The peer is an echo server that may close its side or reset the         *)
(* connection; the pool is deadpool's managed pool seen at the Manager     *)
(* boundary (get = pop + recycle, or create; Object drop = return).        *)
(***************************************************************************)
EXTENDS Integers, Sequences, FiniteSets, TLC

\* ---------------------------------------------------------------- bounds
MaxSocks == 2        \* sockets ever dialled by create
MaxBytes == 2        \* bytes ever written by lessees
MaxBuf == 2          \* largest read/write buffer a lessee passes

\* ------------------------------------------------------ program constants
ProbeLen == 4        \* let mut buf = [0; 4];

\* Two caller tasks share the pool.
Callers == {1, 2}
Socks == 1..MaxSocks
Features == {"rustls_client", "native-tls"}
Host == "example.org"
CertNames == {"example.org", "other.test"}
IoKinds == {"ConnectionReset"}
ConnectKinds == {"ConnectionRefused", "TimedOut"}
\* I/O failures of the socket while the handshake is exchanged.
HandshakeKinds == {"ConnectionReset", "TimedOut"}

VARIABLES
    feature,    \* the TLS backend this build was compiled with
    conn,       \* socket id -> transport/TLS stream state
    pc,         \* caller -> where its task is
    fut,        \* caller -> socket owned by its suspended create future (0: none)
    calls,      \* caller -> what its running create call has invoked so far
    lease,      \* caller -> socket of the Object inside its TlsConnWrapper (0: none)
    idle,       \* the pool's queue of idle connections
    nbytes,     \* bytes written by lessees so far (payload stamp)
    last        \* the operation completed by the latest step, with its result

vars == <<feature, conn, pc, fut, calls, lease, idle, nbytes, last>>

\* ------------------------------------------------------------ small helpers
Min(a, b) == IF a < b THEN a ELSE b

Take(s, n) == SubSeq(s, 1, Min(n, Len(s)))

Drop(s, n) == SubSeq(s, Min(n, Len(s)) + 1, Len(s))

Stamp(from, n) == [i \in 1..n |-> from + i]

\* ------------------------------------------------------------------ errors
IoError(kind) == [type |-> "io", kind |-> kind]

NativeTlsError(kind) == [type |-> "native_tls", kind |-> kind]

\* crate::Error: From<E> keeps the converted error as its cause.
ErrorFrom(e) == [cause |-> e]

Ok(v) == [ok |-> TRUE, val |-> v]

Err(e) == [ok |-> FALSE, err |-> e]

\* ------------------------------------------------------------------ streams
NoStream == [st |-> "free", inq |-> <<>>, outq |-> <<>>, fault |-> "none", shut |-> FALSE]

\* A closed socket is gone; its slot can be dialled again.
ClosedStream == NoStream

\* TlsStream<TcpStream>::poll_read(cx, buf) with |buf| = n.
\* A reset/timeout on the socket is reported at once; buffered data is handed
\* out front first; an orderly close by the peer reads as zero bytes; with
\* nothing to report the read registers the waker and is Pending.
StreamPollRead(s, n) ==
    IF s.fault \in IoKinds
    THEN [poll |-> "Ready", res |-> Err(IoError(s.fault)), stream |-> s]
    ELSE IF Len(s.inq) > 0 /\ n > 0
    THEN [poll |-> "Ready", res |-> Ok(Take(s.inq, n)),
          stream |-> [s EXCEPT !.inq = Drop(s.inq, n)]]
    ELSE IF s.fault = "eof" \/ n = 0
    THEN [poll |-> "Ready", res |-> Ok(<<>>), stream |-> s]
    ELSE [poll |-> "Pending", res |-> Ok(<<>>), stream |-> s]

\* TlsStream<TcpStream>::poll_write(cx, buf): the stream accepts the buffer
\* unless the socket is broken or the write side was shut down.
StreamPollWrite(s, buf) ==
    IF s.fault \in IoKinds
    THEN [poll |-> "Ready", res |-> Err(IoError(s.fault)), stream |-> s]
    ELSE IF s.shut
    THEN [poll |-> "Ready", res |-> Err(IoError("BrokenPipe")), stream |-> s]
    ELSE [poll |-> "Ready", res |-> Ok(Len(buf)),
          stream |-> [s EXCEPT !.outq = s.outq \o buf]]

\* TlsStream<TcpStream>::poll_flush(cx)
StreamPollFlush(s) ==
    IF s.fault \in IoKinds
    THEN [poll |-> "Ready", res |-> Err(IoError(s.fault)), stream |-> s]
    ELSE [poll |-> "Ready", res |-> Ok(0), stream |-> s]

\* TlsStream<TcpStream>::poll_close(cx): close_notify and shutdown of the
\* write side; the stream is closed for this and every later holder.
StreamPollClose(s) ==
    IF s.fault \in IoKinds
    THEN [poll |-> "Ready", res |-> Err(IoError(s.fault)), stream |-> s]
    ELSE [poll |-> "Ready", res |-> Ok(0), stream |-> [s EXCEPT !.shut = TRUE]]

\* ------------------------------------------ leased-connection adapter
\* A wrapper that polls the inner stream again after a first read.
WrapperPollReadTwice(s, n) ==
    LET a == StreamPollRead(s, n)
        b == StreamPollRead(a.stream, n)
    IN  [poll |-> b.poll, res |-> b.res, stream |-> b.stream, inner |-> 2]

\* TlsConnWrapper::poll_read: Pin::new(&mut *self.conn).poll_read(cx, buf)
WrapperPollRead(s, n) ==
    LET r == StreamPollRead(s, n)
    IN  [poll |-> r.poll, res |-> r.res, stream |-> r.stream, inner |-> 1]

\* A wrapper that reports a failed write as an error of its own.
WrapperPollWriteTranslate(s, buf) ==
    LET r == StreamPollWrite(s, buf)
    IN  [poll |-> r.poll,
         res |-> IF r.res.ok THEN r.res ELSE Err(IoError("Other")),
         stream |-> r.stream, inner |-> 1]

\* TlsConnWrapper::poll_write: Pin::new(&mut *self.conn).poll_write(cx, buf)
WrapperPollWrite(s, buf) ==
    LET r == StreamPollWrite(s, buf)
    IN  [poll |-> r.poll, res |-> r.res, stream |-> r.stream, inner |-> 1]

\* TlsConnWrapper::poll_flush: Pin::new(&mut *self.conn).poll_flush(cx)
WrapperPollFlush(s) ==
    LET r == StreamPollFlush(s)
    IN  [poll |-> r.poll, res |-> r.res, stream |-> r.stream, inner |-> 1]

\* TlsConnWrapper::poll_close: Pin::new(&mut *self.conn).poll_close(cx)
WrapperPollClose(s) ==
    LET r == StreamPollClose(s)
    IN  [poll |-> r.poll, res |-> r.res, stream |-> r.stream, inner |-> 1]

\* Dropping a TlsConnWrapper: the struct has no Drop of its own, so only its
\* one field, the pool Object, is dropped; the stream inside is left as it is.
DropWrapper(s) == s

\* --------------------------------------------------------------- Manager
\* recycle without the `bytes == 0` arm: a zero-byte read counts as live.
RecycleEofOk(s) ==
    LET p == StreamPollRead(s, ProbeLen)
    IN  [poll |-> "Ready",
         res |-> IF p.poll = "Ready" /\ ~p.res.ok
                 THEN Err(ErrorFrom(p.res.err)) ELSE Ok(0),
         stream |-> p.stream, polls |-> 1, probe |-> p.poll]

\* recycle that takes only a completed read of data as proof of life.
RecycleStrict(s) ==
    LET p == StreamPollRead(s, ProbeLen)
    IN  [poll |-> "Ready",
         res |-> IF p.poll = "Ready" /\ ~p.res.ok
                 THEN Err(ErrorFrom(p.res.err))
                 ELSE IF p.poll = "Ready" /\ Len(p.res.val) > 0
                 THEN Ok(0)
                 ELSE Err(ErrorFrom(IoError("UnexpectedEof"))),
         stream |-> p.stream, polls |-> 1, probe |-> p.poll]

\* recycle that awaits the read (conn.read(&mut buf).await) instead of
\* polling it once with a no-op waker.
RecycleAwait(s) ==
    LET p == StreamPollRead(s, ProbeLen)
    IN  [poll |-> p.poll,
         res |-> IF ~p.res.ok THEN Err(ErrorFrom(p.res.err))
                 ELSE IF p.poll = "Ready" /\ Len(p.res.val) = 0
                 THEN Err(ErrorFrom(IoError("UnexpectedEof")))
                 ELSE Ok(0),
         stream |-> p.stream, polls |-> 1, probe |-> p.poll]

\* recycle that reports every failed probe as the same end-of-stream error.
RecycleGenericErr(s) ==
    LET p == StreamPollRead(s, ProbeLen)
    IN  [poll |-> "Ready",
         res |-> IF p.poll = "Ready" /\ (~p.res.ok \/ Len(p.res.val) = 0)
                 THEN Err(ErrorFrom(IoError("UnexpectedEof")))
                 ELSE Ok(0),
         stream |-> p.stream, polls |-> 1, probe |-> p.poll]

\* TlsConnection::recycle: one poll_read of a 4-byte buffer with a no-op
\* waker; Ready(Err) and Ready(Ok(0)) are failures, anything else is Ok.
\* The async fn holds no .await, so its future is Ready on its first poll.
Recycle(s) ==
    LET p == StreamPollRead(s, ProbeLen)
        m == IF p.poll = "Ready" /\ ~p.res.ok
                THEN Err(p.res.err)
             ELSE IF p.poll = "Ready" /\ Len(p.res.val) = 0
                THEN Err(IoError("UnexpectedEof"))
             ELSE Ok(0)
    IN  [poll |-> "Ready",
         res |-> IF m.ok THEN Ok(0) ELSE Err(ErrorFrom(m.err)),
         stream |-> p.stream,
         polls |-> 1,
         probe |-> p.poll]

\* NoCertificateVerification::verify_server_cert: Ok for every certificate.
VerifyServerCert(cert, host) == TRUE

\* The OS-native stack's default connector checks the certificate's name.
NativeVerify(cert, host) == cert = host

\* add_tls under the feature this build selects. rustls_client installs
\* NoCertificateVerification on the config before connecting; native-tls
\* calls async_native_tls::connect with its defaults. The peer presents
\* cert, speaks the protocol or not (proto), and the socket carries the
\* exchange or fails with io. The rustls connector returns std::io::Error:
\* a socket error as it is, a TLS error wrapped as InvalidData; the native
\* connector returns async_native_tls::Error for both.
AddTls(feat, host, cert, proto, io) ==
    IF feat = "rustls_client"
    THEN IF io # "ok"
         THEN Err(IoError(io))
         ELSE IF ~proto \/ ~VerifyServerCert(cert, host)
         THEN Err(IoError("InvalidData"))
         ELSE Ok(0)
    ELSE IF io # "ok"
         THEN Err(NativeTlsError(io))
         ELSE IF ~proto
         THEN Err(NativeTlsError("Handshake"))
         ELSE IF ~NativeVerify(cert, host)
         THEN Err(NativeTlsError("Certificate"))
         ELSE Ok(0)

\* create that maps a failed connect to an error of its own.
CreateConnectedGeneric(o) ==
    IF o = "ok"
    THEN [ret |-> FALSE, res |-> Ok(0), dials |-> 0, tls |-> 1, st |-> "handshaking"]
    ELSE [ret |-> TRUE, res |-> Err(ErrorFrom(IoError("Other"))),
          dials |-> 0, tls |-> 0, st |-> "closed"]

\* create that dials again when the connect has failed.
CreateConnectedRetry(o) ==
    IF o = "ok"
    THEN [ret |-> FALSE, res |-> Ok(0), dials |-> 0, tls |-> 1, st |-> "handshaking"]
    ELSE [ret |-> FALSE, res |-> Ok(0), dials |-> 1, tls |-> 0, st |-> "connecting"]

\* TlsConnection::create resumed from `TcpStream::connect(self.addr).await?`
\* with outcome o: an error returns at once through `?`; on success the raw
\* stream is moved into add_tls, which is called in the same poll. The
\* function has no loop: it dials no second time (dials = 0).
CreateConnected(o) ==
    IF o = "ok"
    THEN [ret |-> FALSE, res |-> Ok(0), dials |-> 0, tls |-> 1, st |-> "handshaking"]
    ELSE [ret |-> TRUE, res |-> Err(ErrorFrom(IoError(o))),
          dials |-> 0, tls |-> 0, st |-> "closed"]

\* create that lends the raw stream to the handshake and still holds it,
\* unclosed, when the handshake has failed.
CreateHandshakenLeak(r) ==
    IF r.ok
    THEN [res |-> Ok(0), st |-> "tls"]
    ELSE [res |-> Err(ErrorFrom(r.err)), st |-> "handshaking"]

\* TlsConnection::create resumed from `add_tls(&self.host, raw_stream).await?`
\* with result r: the stream was moved into add_tls, so on an error nothing
\* of it is left in create and it has been dropped by the time `?` returns.
CreateHandshaken(r) ==
    IF r.ok
    THEN [res |-> Ok(0), st |-> "tls"]
    ELSE [res |-> Err(ErrorFrom(r.err)), st |-> "closed"]

\* A create whose socket lives outside the future (a leaked or shared handle).
DropCreateFutureLeak(s) == s

\* Dropping a suspended create future drops what it owns: the connect future
\* or the handshake future, and with it the socket.
DropCreateFuture(s) == ClosedStream

\* -------------------------------------------------------------------- state
NoCalls == [connect |-> 0, tls |-> 0]

Init ==
    /\ feature \in Features
    /\ conn = [c \in Socks |-> NoStream]
    /\ pc = [t \in Callers |-> "idle"]
    /\ fut = [t \in Callers |-> 0]
    /\ calls = [t \in Callers |-> NoCalls]
    /\ lease = [t \in Callers |-> 0]
    /\ idle = <<>>
    /\ nbytes = 0
    /\ last = [op |-> "none"]

FreeSocks == {c \in Socks : conn[c].st = "free"}

NextSock == CHOOSE c \in FreeSocks : \A d \in FreeSocks : c <= d

\* ------------------------------------------------------------------- pool
\* A pool that hands a connection out whatever recycle returned.
PoolDecideLenient(r) == IF r.poll = "Pending" THEN "wait" ELSE "lease"

\* What the pool does with the connection once it has polled recycle on it:
\* it waits on a Pending future, leases on Ok, discards on Err.
PoolDecide(r) ==
    IF r.poll = "Pending" THEN "wait"
    ELSE IF r.res.ok THEN "lease"
    ELSE "discard"

\* A caller asks the pool for a connection (pc = "idle"), or the pool's
\* loop comes round again after discarding one (pc = "acquiring").
\* The pool pops an idle connection and awaits Manager::recycle on it: Ok
\* leases it to the caller inside a TlsConnWrapper, Err drops it and the pool
\* looks again; a Pending future would leave the caller suspended on it.
PoolRecycle(t) ==
    /\ \/ pc[t] \in {"idle", "acquiring"} /\ idle # <<>>
       \/ pc[t] = "recycling"
    /\ LET resumed == pc[t] = "recycling"
           c == IF resumed THEN lease[t] ELSE Head(idle)
           r == Recycle(conn[c])
           d == PoolDecide(r)
       IN  /\ idle' = IF resumed THEN idle ELSE Tail(idle)
           /\ IF d = "wait"
              THEN /\ pc' = [pc EXCEPT ![t] = "recycling"]
                   /\ lease' = [lease EXCEPT ![t] = c]
                   /\ conn' = [conn EXCEPT ![c] = r.stream]
              ELSE IF d = "lease"
              THEN /\ pc' = [pc EXCEPT ![t] = "leased"]
                   /\ lease' = [lease EXCEPT ![t] = c]
                   /\ conn' = [conn EXCEPT ![c] = r.stream]
              ELSE /\ pc' = [pc EXCEPT ![t] = "acquiring"]
                   /\ lease' = [lease EXCEPT ![t] = 0]
                   /\ conn' = [conn EXCEPT ![c] = ClosedStream]
           /\ last' = [op |-> "recycle", t |-> t, c |-> c,
                       fault |-> conn[c].fault, pending |-> Len(conn[c].inq),
                       probe |-> r.probe, polls |-> r.polls,
                       poll |-> r.poll, res |-> r.res]
    /\ UNCHANGED <<feature, fut, calls, nbytes>>

\* With no idle connection the pool awaits Manager::create, which starts the
\* transport connect and suspends on it.
CreateStart(t) ==
    /\ pc[t] \in {"idle", "acquiring"}
    /\ idle = <<>>
    /\ FreeSocks # {}
    /\ conn' = [conn EXCEPT ![NextSock].st = "connecting"]
    /\ fut' = [fut EXCEPT ![t] = NextSock]
    /\ calls' = [calls EXCEPT ![t] = [connect |-> 1, tls |-> 0]]
    /\ pc' = [pc EXCEPT ![t] = "connecting"]
    /\ last' = [op |-> "dial", t |-> t, c |-> NextSock]
    /\ UNCHANGED <<feature, lease, idle, nbytes>>

\* The transport connect completes and create is resumed.
ConnectDone(t) ==
    /\ pc[t] = "connecting"
    /\ \E o \in {"ok"} \cup ConnectKinds :
         LET c == fut[t]
             k == CreateConnected(o)
             n == [calls[t] EXCEPT !.connect = @ + k.dials, !.tls = k.tls]
         IN  /\ conn' = [conn EXCEPT ![c] =
                            IF k.st = "closed" THEN ClosedStream
                            ELSE [conn[c] EXCEPT !.st = k.st]]
             /\ calls' = [calls EXCEPT ![t] = n]
             /\ IF k.ret
                THEN /\ pc' = [pc EXCEPT ![t] = "idle"]
                     /\ fut' = [fut EXCEPT ![t] = 0]
                ELSE /\ pc' = [pc EXCEPT ![t] = k.st]
                     /\ fut' = fut
             /\ last' = [op |-> IF k.ret THEN "create" ELSE "connected",
                         t |-> t, c |-> c, step |-> "connect", io |-> o,
                         calls |-> n, res |-> k.res]
    /\ UNCHANGED <<feature, lease, idle, nbytes>>

\* The TLS engine finishes the handshake, create is resumed and returns; the
\* pool hands a new Connection to the caller inside a TlsConnWrapper.
HandshakeDone(t) ==
    /\ pc[t] = "handshaking"
    /\ \E cert \in CertNames, proto \in BOOLEAN, io \in {"ok"} \cup HandshakeKinds :
         LET c == fut[t]
             r == AddTls(feature, Host, cert, proto, io)
             k == CreateHandshaken(r)
         IN  /\ conn' = [conn EXCEPT ![c] =
                            IF k.st = "closed" THEN ClosedStream
                            ELSE [conn[c] EXCEPT !.st = k.st]]
             /\ fut' = [fut EXCEPT ![t] = 0]
             /\ IF k.res.ok
                THEN /\ pc' = [pc EXCEPT ![t] = "leased"]
                     /\ lease' = [lease EXCEPT ![t] = c]
                ELSE /\ pc' = [pc EXCEPT ![t] = "idle"]
                     /\ lease' = lease
             /\ last' = [op |-> "create", t |-> t, c |-> c,
                         step |-> "handshake", tls |-> r, cert |-> cert,
                         proto |-> proto, io |-> io, calls |-> calls[t],
                         res |-> k.res]
    /\ UNCHANGED <<feature, calls, idle, nbytes>>

\* The caller's request is cancelled while create is suspended: the pending
\* create future is dropped.
Cancel(t) ==
    /\ pc[t] \in {"connecting", "handshaking"}
    /\ conn' = [conn EXCEPT ![fut[t]] = DropCreateFuture(conn[fut[t]])]
    /\ fut' = [fut EXCEPT ![t] = 0]
    /\ pc' = [pc EXCEPT ![t] = "idle"]
    /\ last' = [op |-> "cancel", t |-> t, c |-> fut[t], at |-> pc[t]]
    /\ UNCHANGED <<feature, calls, lease, idle, nbytes>>

\* A wrapper holding a shared handle: the connection goes back to the pool's
\* queue while the lessee can still use it.
ReleaseShared(t) ==
    /\ pc[t] = "leased"
    /\ idle' = Append(idle, lease[t])
    /\ last' = [op |-> "release", t |-> t, c |-> lease[t]]
    /\ UNCHANGED <<feature, conn, pc, fut, calls, lease, nbytes>>

\* The lessee drops its TlsConnWrapper; the Object inside goes back to the
\* pool's queue.
Release(t) ==
    /\ pc[t] = "leased"
    /\ conn' = [conn EXCEPT ![lease[t]] = DropWrapper(conn[lease[t]])]
    /\ idle' = Append(idle, lease[t])
    /\ lease' = [lease EXCEPT ![t] = 0]
    /\ pc' = [pc EXCEPT ![t] = "idle"]
    /\ last' = [op |-> "release", t |-> t, c |-> lease[t]]
    /\ UNCHANGED <<feature, fut, calls, nbytes>>

\* ---------------------------------------------------------------- lessee
Adapter(t, op, arg, r) ==
    /\ conn' = [conn EXCEPT ![lease[t]] = r.stream]
    /\ last' = [op |-> op, t |-> t, c |-> lease[t], arg |-> arg,
                inner |-> r.inner, poll |-> r.poll, res |-> r.res]
    /\ UNCHANGED <<feature, pc, fut, calls, lease, idle>>

Read(t) ==
    /\ pc[t] = "leased"
    /\ \E n \in 1..MaxBuf : Adapter(t, "read", n, WrapperPollRead(conn[lease[t]], n))
    /\ UNCHANGED nbytes

Write(t) ==
    /\ pc[t] = "leased"
    /\ \E n \in 1..MaxBuf :
         /\ nbytes + n <= MaxBytes
         /\ nbytes' = nbytes + n
         /\ Adapter(t, "write", Stamp(nbytes, n),
                    WrapperPollWrite(conn[lease[t]], Stamp(nbytes, n)))

Flush(t) ==
    /\ pc[t] = "leased"
    /\ Adapter(t, "flush", 0, WrapperPollFlush(conn[lease[t]]))
    /\ UNCHANGED nbytes

Close(t) ==
    /\ pc[t] = "leased"
    /\ Adapter(t, "close", 0, WrapperPollClose(conn[lease[t]]))
    /\ UNCHANGED nbytes

\* ------------------------------------------------------------------ peer
Peer(c, s) ==
    /\ conn[c].st = "tls"
    /\ conn[c].fault = "none"
    /\ conn' = [conn EXCEPT ![c] = s]
    /\ last' = [op |-> "peer", c |-> c]
    /\ UNCHANGED <<feature, pc, fut, calls, lease, idle, nbytes>>

\* The echo server sends back what it has received.
PeerEcho(c) ==
    /\ conn[c].outq # <<>>
    /\ Peer(c, [conn[c] EXCEPT !.inq = @ \o conn[c].outq, !.outq = <<>>])

\* The peer closes its side of the connection; what it had not echoed yet
\* it never will.
PeerClose(c) == Peer(c, [conn[c] EXCEPT !.fault = "eof", !.outq = <<>>])

\* The socket breaks (reset by the peer); data in flight is discarded.
PeerFault(c) ==
    \E k \in IoKinds :
        Peer(c, [conn[c] EXCEPT !.fault = k, !.inq = <<>>, !.outq = <<>>])

Next ==
    \/ \E t \in Callers : PoolRecycle(t)
    \/ \E t \in Callers : CreateStart(t)
    \/ \E t \in Callers : ConnectDone(t)
    \/ \E t \in Callers : HandshakeDone(t)
    \/ \E t \in Callers : Cancel(t)
    \/ \E t \in Callers : Release(t)
    \/ \E t \in Callers : Read(t)
    \/ \E t \in Callers : Write(t)
    \/ \E t \in Callers : Flush(t)
    \/ \E t \in Callers : Close(t)
    \/ \E c \in Socks : PeerEcho(c)
    \/ \E c \in Socks : PeerClose(c)
    \/ \E c \in Socks : PeerFault(c)

Spec == Init /\ [][Next]_vars

\* ------------------------------------------------------------ properties
Leased == {lease[t] : t \in Callers} \ {0}

Idle == {idle[i] : i \in 1..Len(idle)}

IsOpen(c) == conn[c].st # "free"

\* C1: recycle on an idle connection whose peer has closed its side, with
\* nothing buffered (the probe reads exactly zero bytes), fails with an
\* end-of-stream error and the pool does not lease the connection.
C1_RecycleEofFails ==
    (last.op = "recycle" /\ last.fault = "eof" /\ last.pending = 0) =>
        /\ last.probe = "Ready"
        /\ ~last.res.ok
        /\ last.res.err = ErrorFrom(IoError("UnexpectedEof"))
        /\ pc[last.t] # "leased"

C1_Witness ==
    last.op = "recycle" /\ last.fault = "eof" /\ last.pending = 0 /\ ~last.res.ok

\* C2: recycle succeeds whenever its probe is neither an error nor a
\* zero-byte read: the peer is open and silent, or data is already pending;
\* the connection is then leased.
C2_RecycleLiveOk ==
    (/\ last.op = "recycle"
     /\ \/ last.fault = "none"
        \/ last.fault = "eof" /\ last.pending > 0) =>
        /\ last.res.ok
        /\ pc[last.t] = "leased"
        /\ lease[last.t] = last.c

C2_Witness ==
    /\ last.op = "recycle" /\ last.fault = "none" /\ last.pending = 0
    /\ last.res.ok /\ ~conn[last.c].shut

\* C3: recycle does not consume protocol data: what is pending on the
\* connection after a successful recycle is what was pending before it.
C3_RecycleKeepsData ==
    (last.op = "recycle" /\ last.res.ok) =>
        Len(conn[last.c].inq) = last.pending

\* C4: recycle never suspends: whatever the connection's state, the call is
\* complete when first polled, after exactly one probe read, and no caller
\* is ever left waiting inside recycle.
C4_RecycleNeverSuspends ==
    /\ \A t \in Callers : pc[t] # "recycling"
    /\ last.op = "recycle" => last.poll = "Ready" /\ last.polls = 1

C4_Witness ==
    last.op = "recycle" /\ last.probe = "Pending" /\ last.poll = "Ready"

\* C5: when the transport connect fails, create returns an error carrying
\* that I/O failure, the TLS engine is not invoked, no connection is handed
\* out and the socket is not left open.
C5_ConnectFailure ==
    (last.op \in {"create", "connected"} /\ last.step = "connect" /\ last.io # "ok") =>
        /\ last.op = "create"
        /\ ~last.res.ok
        /\ last.res.err = ErrorFrom(IoError(last.io))
        /\ last.calls.tls = 0
        /\ ~IsOpen(last.c)
        /\ last.c \notin Leased \cup Idle
        /\ pc[last.t] = "idle" /\ lease[last.t] = 0 /\ fut[last.t] = 0

C5_Witness ==
    last.op = "create" /\ last.step = "connect" /\ last.io = "ConnectionRefused"

\* C6: when the handshake fails after a successful connect, create returns
\* the TLS engine's error, no connection is handed out and the transport
\* socket is already closed when the error reaches the caller.
C6_HandshakeFailure ==
    (last.op = "create" /\ last.step = "handshake" /\ ~last.tls.ok) =>
        /\ ~last.res.ok
        /\ last.res.err = ErrorFrom(last.tls.err)
        /\ ~IsOpen(last.c)
        /\ last.c \notin Leased \cup Idle
        /\ pc[last.t] = "idle" /\ lease[last.t] = 0 /\ fut[last.t] = 0

C6_Witness ==
    last.op = "create" /\ last.step = "handshake" /\ ~last.tls.ok /\ ~last.proto

\* C7: certificate verification is strict under every backend: create
\* against a peer presenting a certificate for another hostname fails (the
\* code has no switch that opts into permissive mode).
C7_StrictByDefault ==
    (last.op = "create" /\ last.step = "handshake" /\ last.cert # Host) =>
        ~last.res.ok

\* C8: a create cancelled while suspended at the connect or in the handshake
\* leaves no socket open, and nothing half-initialized is idle in the pool
\* or leased: every socket not yet through its handshake belongs to a
\* create that is still running.
C8_CancelTearsDown ==
    /\ last.op = "cancel" =>
          /\ ~IsOpen(last.c)
          /\ last.c \notin Leased \cup Idle
          /\ fut[last.t] = 0
    /\ \A c \in Socks :
          conn[c].st \in {"connecting", "handshaking"} =>
              \E t \in Callers : fut[t] = c /\ pc[t] = conn[c].st
    /\ \A c \in Leased \cup Idle : conn[c].st = "tls"

C8_Witness ==
    last.op = "cancel" /\ last.at = "handshaking"

AdapterOps == {"read", "write", "flush", "close"}

InnerCall(op, s, arg) ==
    CASE op = "read" -> StreamPollRead(s, arg)
      [] op = "write" -> StreamPollWrite(s, arg)
      [] op = "flush" -> StreamPollFlush(s)
      [] op = "close" -> StreamPollClose(s)

\* C9: the adapter is byte-transparent: every read, write, flush and close
\* through it is one call of the same operation on the inner connection with
\* the same buffer, returns that call's result (Pending included) and leaves
\* the connection as that call left it; bytes read are taken in order from
\* the front of what the peer sent, bytes written are appended unchanged.
C9_AdapterTransparent ==
    [][last'.op \in AdapterOps =>
         LET c == last'.c
             r == InnerCall(last'.op, conn[c], last'.arg)
         IN  /\ last'.inner = 1
             /\ last'.poll = r.poll
             /\ last'.res = r.res
             /\ conn'[c] = r.stream
             /\ (last'.op = "read" /\ last'.res.ok) =>
                    last'.res.val \o conn'[c].inq = conn[c].inq
             /\ (last'.op = "write" /\ last'.res.ok) =>
                    /\ last'.res.val = Len(last'.arg)
                    /\ conn'[c].outq = conn[c].outq \o last'.arg]_vars

C9_Witness ==
    last.op = "read" /\ last.poll = "Ready" /\ last.res.ok /\ Len(last.res.val) = 2

\* C10: after a lease that ends by release the connection is still open and
\* back in the pool's queue.
C10_ReleaseKeepsOpen ==
    last.op = "release" =>
        /\ conn[last.c].st = "tls"
        /\ ~conn[last.c].shut
        /\ last.c \in Idle

\* C11: when the probe read reports an I/O error, recycle fails and the
\* error it returns has that I/O error, kind included, as its cause; the
\* pool discards the connection.
C11_RecycleKeepsCause ==
    (last.op = "recycle" /\ last.fault \in IoKinds) =>
        /\ last.probe = "Ready"
        /\ ~last.res.ok
        /\ last.res.err.cause = IoError(last.fault)
        /\ last.res.err.cause.kind # "UnexpectedEof"
        /\ pc[last.t] # "leased"

C11_Witness ==
    last.op = "recycle" /\ last.fault = "ConnectionReset" /\ ~last.res.ok

\* C12: the Manager never retries: a create call makes one transport
\* connect and at most one TLS handshake, and the first failure of either
\* ends the call with that failure as its result.
C12_NoRetry ==
    /\ \A t \in Callers : calls[t].connect <= 1 /\ calls[t].tls <= 1
    /\ (last.op \in {"create", "connected"} /\ last.step = "connect") =>
          /\ last.calls.connect = 1
          /\ last.io # "ok" =>
                /\ last.op = "create" /\ ~last.res.ok
                /\ last.calls.tls = 0
                /\ pc[last.t] = "idle"
          /\ last.io = "ok" => last.calls.tls = 1 /\ pc[last.t] = "handshaking"
    /\ (last.op = "create" /\ last.step = "handshake") =>
          /\ last.calls = [connect |-> 1, tls |-> 1]
          /\ last.res.ok = last.tls.ok
          /\ ~last.tls.ok => pc[last.t] = "idle" /\ fut[last.t] = 0

C12_Witness ==
    /\ last.op = "create" /\ last.step = "handshake" /\ ~last.res.ok
    /\ last.calls = [connect |-> 1, tls |-> 1]

\* What create can return when the connect fails, and when the handshake
\* fails, in this build.
ConnectFailures == {CreateConnected(o).res : o \in ConnectKinds}

HandshakeFailures ==
    {k \in {CreateHandshaken(AddTls(feature, Host, x[1], x[2], x[3])).res :
               x \in CertNames \X BOOLEAN \X ({"ok"} \cup HandshakeKinds)} : ~k.ok}

\* C13: a create call that fails returns a ConnectError exactly when the
\* transport connect failed and a HandshakeError exactly when the TLS
\* negotiation failed, and the returned error tells which: no error returned
\* for a failed connect is one a failed handshake returns, and conversely.
C13_CausesDistinguishable ==
    (last.op = "create" /\ ~last.res.ok) =>
        /\ last.step = "connect" =>
              last.io # "ok" /\ last.res \notin HandshakeFailures
        /\ last.step = "handshake" =>
              ~last.tls.ok /\ last.res \notin ConnectFailures

\* C14: an I/O error of the inner connection during a lease passes through
\* unchanged: whenever the inner read, write, flush or close returns an
\* error, the adapter call returns that same error, and the adapter returns
\* no error the inner connection did not return.
C14_ErrorsPassThrough ==
    [][last'.op \in AdapterOps =>
         LET r == InnerCall(last'.op, conn[last'.c], last'.arg)
         IN  /\ ~r.res.ok =>
                   /\ last'.poll = "Ready"
                   /\ ~last'.res.ok
                   /\ last'.res.err = r.res.err
             /\ ~last'.res.ok => ~r.res.ok]_vars

C14_Witness ==
    /\ last.op = "write" /\ ~last.res.ok
    /\ last.res.err = IoError("BrokenPipe")

\* C15: a connection that was idle is handed out only by a step in which
\* recycle on it returned success to the acquiring caller (any other new
\* lease is a connection create has just returned), and a connection on
\* which recycle returned failure is closed and is neither leased nor idle.
C15_LeaseOnlyAfterRecycle ==
    [][/\ \A t \in Callers :
             (lease'[t] # 0 /\ lease'[t] # lease[t]) =>
                 /\ last'.op = IF lease'[t] \in Idle THEN "recycle" ELSE "create"
                 /\ last'.t = t /\ last'.c = lease'[t]
                 /\ last'.res.ok
       /\ (last'.op = "recycle" /\ last'.poll = "Ready" /\ ~last'.res.ok) =>
             /\ conn'[last'.c].st = "free"
             /\ \A t \in Callers : lease'[t] # last'.c
             /\ \A i \in 1..Len(idle') : idle'[i] # last'.c]_vars

C15_Witness ==
    /\ last.op = "recycle" /\ ~last.res.ok
    /\ pc[last.t] = "acquiring" /\ ~IsOpen(last.c)

Holders(c) ==
    {t \in Callers : lease[t] = c \/ fut[t] = c}

\* C16: a connection is never read or written by two parties at once: no
\* connection has two holders, none is both held and idle or twice in the
\* idle queue, recycle's probe runs on a connection no other caller holds,
\* and an adapter call runs on a connection that is not idle and that only
\* the calling lessee holds.
C16_OneUserAtATime ==
    /\ \A c \in Socks : Cardinality(Holders(c)) <= 1
    /\ \A c \in Idle : Holders(c) = {}
    /\ \A i, j \in 1..Len(idle) : idle[i] = idle[j] => i = j
    /\ last.op = "recycle" => Holders(last.c) \subseteq {last.t}
    /\ last.op \in AdapterOps =>
          /\ Holders(last.c) = {last.t}
          /\ last.c \notin Idle

C16_Witness ==
    /\ last.op = "recycle" /\ last.res.ok
    /\ \E u \in Callers \ {last.t} : pc[u] = "leased" /\ lease[u] # last.c

\* C17: the two TLS backends are interchangeable: for the same peer
\* behaviour (certificate presented, protocol spoken, socket failure) a
\* create that reaches the handshake ends in the same outcome class, a
\* Connection or a handshake failure, under either backend.
C17_BackendsAgree ==
    (last.op = "create" /\ last.step = "handshake") =>
        \A f \in Features :
            CreateHandshaken(AddTls(f, Host, last.cert, last.proto, last.io)).res.ok
                = last.res.ok

====
